---- MODULE Spec2Model ----
(***************************************************************************)
(* State-machine model of the csm_web front-end components                 *)
(*   DropSection      (StudentSection.js, src/unnamed/part_000)            *)
(*   Course/SectionEnroll (components/Course.js)                           *)
(*   MentorSection    (components/MentorSection.js)                        *)
(* Every component is single threaded: an action is one event-loop task    *)
(* (a click handler, a lifecycle method, a promise continuation) with all  *)
(* the synchronous setState calls it makes.                                *)
(***************************************************************************)
EXTENDS Integers, Sequences, FiniteSets

VARIABLES
  profileId,      \* DropSection.props.profileId
  stage,          \* DropSection.state.stage
  dropCalls,      \* PATCH students/{profileId}/drop calls, in dispatch order
  dropMounted,    \* a DropSection is mounted: the Route of StudentSectionInfo matches
  mounted,        \* Course: componentDidMount has run
  propCourse,     \* Course.props.course
  course,         \* Course.state.course
  sections,       \* Course.state.sections, as Object.entries lists it
  enrolled,       \* Course.state.enrolled
  enrollmentOpen, \* Course.state.enrollmentOpen
  viewSection,    \* Course.state.viewSection: <<>> is null, <<id>> an id
  profilesInFlight, \* outstanding GET /scheduler/profiles/
  sectionsInFlight, \* outstanding GET /scheduler/courses/{name}/sections/, per name
  enrollInFlight, \* outstanding POST scheduler/sections/{id}/enroll, per id
  alerts,         \* alert_modal calls not yet acknowledged, oldest first
  uncaught,       \* continuations that ended in an uncaught exception
  effectRan,      \* MentorSection: the effect of the committed render has run
  sectionId,      \* MentorSection's id prop
  students,       \* MentorSection state: students
  attendances,    \* MentorSection state: attendances, as Object.entries lists it
  loaded,         \* MentorSection state: loaded
  studentsInFlight, \* outstanding GET /sections/{id}/students/, per id
  selectedWeek,   \* MentorSectionAttendance.state.selectedWeek: <<>> is null
  page,           \* the Route of MentorSection that matches: "attendance" or "other"
  buttonProps,    \* props of one SectionEnroll
  button,         \* what that SectionEnroll rendered: <<>> before it renders
  fetched,        \* the body of a sections response, in the server's order
  days            \* const days of Course.render: <<>> before it renders

dropVars == <<profileId, stage, dropCalls, dropMounted>>
courseVars == <<mounted, propCourse, course, sections, enrolled, enrollmentOpen,
                viewSection, profilesInFlight, sectionsInFlight, enrollInFlight,
                alerts, uncaught>>
mentorVars == <<effectRan, sectionId, students, attendances, loaded,
                studentsInFlight, selectedWeek, page>>
buttonVars == <<buttonProps, button>>
listingVars == <<fetched, days>>
vars == <<dropVars, courseVars, mentorVars, buttonVars, listingVars>>

(***************************************************************************)
(* Bounds                                                                  *)
(***************************************************************************)
\* Confirm clicks (dispatched drop calls) explored.
MaxDropCalls == 3
\* GET requests of Course outstanding at once (updateCourse dispatches two).
MaxFetches == 3
\* enroll POSTs outstanding plus alerts open at once.
MaxEnroll == 1
\* GET requests of MentorSection outstanding at once.
MaxMentorFetches == 3
\* weeks of attendance a students response carries.
MaxWeeks == 2
\* largest capacity of a section handed to SectionEnroll.
MaxCapacity == 4
MaxListed == 3

(***************************************************************************)
(* DropSection                                                             *)
(***************************************************************************)
STAGES == {"INITIAL", "CONFIRM", "DROPPED"}

\* profile ids the component may be constructed with
ProfileIds == {11, 12}

\* a dispatched call: the id in its URL, the state of its promise, and whether
\* the DropSection that dispatched it is still mounted
DropCall(p) == [profile |-> p, status |-> "pending", mounted |-> TRUE]

DropInit ==
  /\ profileId \in ProfileIds
  /\ stage = "INITIAL"
  /\ dropCalls = <<>>
  /\ dropMounted = TRUE

\* onClick of the Drop button, rendered in stage INITIAL
ClickDrop ==
  /\ dropMounted
  /\ stage = "INITIAL"
  /\ stage' = "CONFIRM"
  /\ UNCHANGED <<profileId, dropCalls, dropMounted, courseVars, mentorVars,
                 buttonVars, listingVars>>

\* closeModal wired to a handler that also dispatches the drop call.
CloseModalDropping ==
  /\ dropMounted
  /\ stage = "CONFIRM"
  /\ Len(dropCalls) < MaxDropCalls
  /\ stage' = "INITIAL"
  /\ dropCalls' = Append(dropCalls, DropCall(profileId))
  /\ UNCHANGED <<profileId, dropMounted, courseVars, mentorVars, buttonVars,
                 listingVars>>

\* closeModal of the confirmation Modal, rendered in stage CONFIRM
CloseModal ==
  /\ dropMounted
  /\ stage = "CONFIRM"
  /\ stage' = "INITIAL"
  /\ UNCHANGED <<profileId, dropCalls, dropMounted, courseVars, mentorVars,
                 buttonVars, listingVars>>

\* The synchronous part of performDrop, as an optimistic handler would be
\* written: the stage is set in the click handler.
PerformDropOptimistic ==
  /\ dropMounted
  /\ stage = "CONFIRM"
  /\ Len(dropCalls) < MaxDropCalls
  /\ dropCalls' = Append(dropCalls, DropCall(profileId))
  /\ stage' = "DROPPED"
  /\ UNCHANGED <<profileId, dropMounted, courseVars, mentorVars, buttonVars,
                 listingVars>>

\* performDrop, the onClick of the Confirm button rendered in stage CONFIRM:
\* dispatches the call and returns; setState runs in the continuation only.
PerformDrop ==
  /\ dropMounted
  /\ stage = "CONFIRM"
  /\ Len(dropCalls) < MaxDropCalls
  /\ dropCalls' = Append(dropCalls, DropCall(profileId))
  /\ UNCHANGED <<profileId, stage, dropMounted, courseVars, mentorVars,
                 buttonVars, listingVars>>

\* The promise of call i fulfils: the .then continuation of performDrop.
\* Its setState is ignored when the DropSection that dispatched the call has
\* been unmounted.  Otherwise the stage becomes DROPPED and render returns
\* the Redirect to "/", which navigates in the same commit: the Switch of
\* StudentSection unmounts the DropSection, and its other calls lose their
\* instance with it.
DropFulfilled(i) ==
  /\ dropCalls[i].status = "pending"
  /\ IF dropCalls[i].mounted
       THEN /\ stage' = "DROPPED"
            /\ dropMounted' = FALSE
            /\ dropCalls' = [j \in DOMAIN dropCalls |->
                               [dropCalls[j] EXCEPT
                                  !.status = IF j = i THEN "fulfilled" ELSE @,
                                  !.mounted = FALSE]]
       ELSE /\ dropCalls' = [dropCalls EXCEPT ![i].status = "fulfilled"]
            /\ UNCHANGED <<stage, dropMounted>>
  /\ UNCHANGED <<profileId, courseVars, mentorVars, buttonVars, listingVars>>

\* A rejection handler that rolls the workflow back to INITIAL, whichever
\* instance dispatched the call.
DropRejectedRollback(i) ==
  /\ dropCalls[i].status = "pending"
  /\ dropCalls' = [dropCalls EXCEPT ![i].status = "rejected",
                                    ![i].mounted = FALSE]
  /\ stage' = "INITIAL"
  /\ UNCHANGED <<profileId, dropMounted, courseVars, mentorVars, buttonVars,
                 listingVars>>

\* The continuation run for a rejected promise as for a fulfilled one.
DropRejectedDropped(i) ==
  /\ dropCalls[i].status = "pending"
  /\ dropCalls' = [dropCalls EXCEPT ![i].status = "rejected",
                                    ![i].mounted = FALSE]
  /\ stage' = IF dropCalls[i].mounted THEN "DROPPED" ELSE stage
  /\ UNCHANGED <<profileId, dropMounted, courseVars, mentorVars, buttonVars,
                 listingVars>>

\* The promise of call i rejects: .then was given no rejection handler, so
\* no line of the component runs.
DropRejected(i) ==
  /\ dropCalls[i].status = "pending"
  /\ dropCalls' = [dropCalls EXCEPT ![i].status = "rejected",
                                    ![i].mounted = FALSE]
  /\ UNCHANGED <<profileId, stage, dropMounted, courseVars, mentorVars,
                 buttonVars, listingVars>>

\* The location leaves the section page by a link (the Attendance tab): the
\* Switch of StudentSection no longer renders StudentSectionInfo and the
\* DropSection is unmounted.
\* Its state stays as it was; the continuations of its calls no longer
\* reach a component.
LeaveSectionInfo ==
  /\ dropMounted
  /\ dropMounted' = FALSE
  /\ dropCalls' = [i \in DOMAIN dropCalls |->
                     [dropCalls[i] EXCEPT !.mounted = FALSE]]
  /\ UNCHANGED <<profileId, stage, courseVars, mentorVars, buttonVars,
                 listingVars>>

\* The location returns to the section page: the Route renders
\* StudentSectionInfo with a new DropSection, constructed in stage INITIAL.
EnterSectionInfo ==
  /\ ~dropMounted
  /\ dropMounted' = TRUE
  /\ stage' = "INITIAL"
  /\ UNCHANGED <<profileId, dropCalls, courseVars, mentorVars, buttonVars,
                 listingVars>>

DropNext ==
  \/ ClickDrop
  \/ CloseModal
  \/ PerformDrop
  \/ \E i \in DOMAIN dropCalls : DropFulfilled(i)
  \/ \E i \in DOMAIN dropCalls : DropRejected(i)
  \/ LeaveSectionInfo
  \/ EnterSectionInfo

\* DropSection.render returns the Redirect to "/"
DropRendersRedirect == stage = "DROPPED"

PendingDrops == {i \in DOMAIN dropCalls : dropCalls[i].status = "pending"}

(***************************************************************************)
(* Course, Day, SectionEnroll                                              *)
(***************************************************************************)
Null == <<>>

\* instants moment() can return, and the instants the window bounds name
Times == 0 .. 3

\* values of props.course
Courses ==
  { [id |-> 1, name |-> "CS61A", enrollmentStart |-> 0, enrollmentEnd |-> 2],
    [id |-> 2, name |-> "CS70", enrollmentStart |-> 1, enrollmentEnd |-> 3] }

CourseNames == {c.name : c \in Courses}

\* const dayOfWeek
dayOfWeek ==
  [d \in {"Monday", "Tuesday", "Wednesday", "Thursday", "Friday", "Saturday",
          "Sunday"} |->
     CASE d = "Monday" -> 0 [] d = "Tuesday" -> 1 [] d = "Wednesday" -> 2
       [] d = "Thursday" -> 3 [] d = "Friday" -> 4 [] d = "Saturday" -> 5
       [] d = "Sunday" -> 6]

\* A startTime in API_TIME_FORMAT "HH:mm:ss" is written <<HH, mm, ss>>.
\* The sections the server holds, without their enrolledStudents count.
SectionPool ==
  { [id |-> 1, course |-> "CS61A", capacity |-> 2,
     defaultSpacetime |-> [dayOfWeek |-> "Tuesday", startTime |-> <<10, 0, 0>>,
                           location |-> "Soda 283"]],
    [id |-> 2, course |-> "CS61A", capacity |-> 1,
     defaultSpacetime |-> [dayOfWeek |-> "Monday", startTime |-> <<14, 30, 0>>,
                           location |-> "Cory 540"]],
    [id |-> 3, course |-> "CS70", capacity |-> 1,
     defaultSpacetime |-> [dayOfWeek |-> "Monday", startTime |-> <<9, 0, 0>>,
                           location |-> "Evans 10"]] }

SectionIds == {p.id : p \in SectionPool}

PoolSection(id) == CHOOSE p \in SectionPool : p.id = id

\* a section as the sections endpoint returns it
Snapshot(id, n) ==
  [id |-> id, capacity |-> PoolSection(id).capacity, enrolledStudents |-> n,
   defaultSpacetime |-> PoolSection(id).defaultSpacetime]

\* The bodies GET /scheduler/courses/{name}/sections/ can answer with: the
\* sections of that course in the server's order, each with
\* 0 <= enrolledStudents <= capacity.
SectionResponses(name) ==
  IF name = "CS61A"
    THEN {<<Snapshot(1, n1), Snapshot(2, n2)>> :
            n1 \in 0 .. PoolSection(1).capacity,
            n2 \in 0 .. PoolSection(2).capacity}
    ELSE {<<Snapshot(3, n3)>> : n3 \in 0 .. PoolSection(3).capacity}

\* The bodies GET /scheduler/profiles/ can answer with.
ProfileResponses ==
  {<<>>, <<[course |-> 1]>>, <<[course |-> 2]>>, <<[course |-> 1], [course |-> 2]>>}

\* The JSON objects an enroll response can carry: a shortCode, or none.
ShortCodes == {"already_enrolled", "course_closed", "section_full", "teapot"}
EnrollBodies ==
  {[shortCode |-> c, message |-> "m"] : c \in ShortCodes} \cup {[message |-> "m"]}

\* A body that is not JSON (an HTML error page, an empty body), for which
\* response.json() rejects, and the JSON value null.
Undecodable == [undecodable |-> TRUE]
JsonNull == [jsonNull |-> TRUE]

\* Everything the body of an enroll response can be.
EnrollResponseBodies == EnrollBodies \cup {Undecodable, JsonNull}

Range(f) == {f[i] : i \in DOMAIN f}

\* moment(startTime, API_TIME_FORMAT): milliseconds since the start of the day
ParseTime(t) == ((t[1] * 60 + t[2]) * 60 + t[3]) * 1000

\* moment.format(DISPLAY_TIME_FORMAT), "HH:mm A": 24-hour hour, minute, meridiem
FormatDisplay(ms) ==
  LET minutes == ms \div 60000
  IN  <<minutes \div 60, minutes % 60,
  IF minutes \div 60 < 12 THEN "AM" ELSE "PM">>

\* the keys of a lodash groupBy result, in insertion order
RECURSIVE DistinctKeys(_)
DistinctKeys(ks) ==
  IF ks = <<>> THEN <<>>
  ELSE LET front == DistinctKeys(SubSeq(ks, 1, Len(ks) - 1))
           last == ks[Len(ks)]
       IN  IF last \in Range(front) THEN front ELSE Append(front, last)

\* groupBy(sections, section => section.defaultSpacetime.dayOfWeek), written
\* as Object.entries lists the result
GroupByDay(secs) ==
  LET ks == DistinctKeys([i \in DOMAIN secs |-> secs[i].defaultSpacetime.dayOfWeek])
  IN  [j \in DOMAIN ks |->
         <<ks[j], SelectSeq(secs, LAMBDA s : s.defaultSpacetime.dayOfWeek = ks[j])>>]

\* the comparator of Day: time1 - time2
CompareStart(s1, s2) ==
  ParseTime(s1.defaultSpacetime.startTime) - ParseTime(s2.defaultSpacetime.startTime)

\* a sort that places a section before the sections of equal start time
RECURSIVE InsertByStartUnstable(_, _)
InsertByStartUnstable(x, sorted) ==
  IF sorted = <<>> THEN <<x>>
  ELSE IF CompareStart(x, sorted[Len(sorted)]) > 0 THEN Append(sorted, x)
  ELSE Append(InsertByStartUnstable(x, SubSeq(sorted, 1, Len(sorted) - 1)),
              sorted[Len(sorted)])

\* Array.prototype.sort with that comparator (a stable sort)
RECURSIVE InsertByStart(_, _)
InsertByStart(x, sorted) ==
  IF sorted = <<>> THEN <<x>>
  ELSE IF CompareStart(x, sorted[Len(sorted)]) >= 0 THEN Append(sorted, x)
  ELSE Append(InsertByStart(x, SubSeq(sorted, 1, Len(sorted) - 1)),
              sorted[Len(sorted)])

RECURSIVE SortByStart(_)
SortByStart(secs) ==
  IF secs = <<>> THEN <<>>
  ELSE InsertByStart(secs[Len(secs)], SortByStart(SubSeq(secs, 1, Len(secs) - 1)))

\* What Course.render leaves in state.sections: with viewSection null every
\* Day sorts its props.sections, the array held in the state, in place; with
\* viewSection set render returns the Redirect and no Day is rendered.
Rendered(view, grouped) ==
  IF view = Null
    THEN [j \in DOMAIN grouped |-> <<grouped[j][1], SortByStart(grouped[j][2])>>]
    ELSE grouped

\* the sections Course.render shows an Enroll button for
Shown == IF viewSection = Null
           THEN UNION {Range(sections[j][2]) : j \in DOMAIN sections}
           ELSE {}

\* the window test with both ends included
IsOpenInclusive(now, c) == now >= c.enrollmentStart /\ now <= c.enrollmentEnd

\* now > enrollmentStart && now < enrollmentEnd
IsOpen(now, c) == now > c.enrollmentStart /\ now < c.enrollmentEnd

\* const available
Available(section) == section.capacity - section.enrolledStudents

\* const disabled without the capacity test
DisabledWithoutCapacity(isEnrolled, isOpen, section) ==
  isEnrolled \/ ~isOpen

\* const disabled of SectionEnroll
Disabled(isEnrolled, isOpen, section) ==
  isEnrolled \/ ~isOpen \/ Available(section) = 0

RECURSIVE SumOver(_, _)
SumOver(f, S) ==
  IF S = {} THEN 0
  ELSE LET x == CHOOSE y \in S : TRUE IN f[x] + SumOver(f, S \ {x})

\* GET requests of Course outstanding
Fetches == profilesInFlight + SumOver(sectionsInFlight, CourseNames)

\* enroll POSTs outstanding and alerts open
EnrollTokens == SumOver(enrollInFlight, SectionIds) + Len(alerts)

CourseInit ==
  /\ mounted = FALSE
  /\ propCourse \in Courses
  /\ course = propCourse
  /\ sections = <<>>
  /\ enrolled = FALSE
  /\ enrollmentOpen = FALSE
  /\ viewSection = Null
  /\ profilesInFlight = 0
  /\ sectionsInFlight = [n \in CourseNames |-> 0]
  /\ enrollInFlight = [s \in SectionIds |-> 0]
  /\ alerts = <<>>
  /\ uncaught = {}

\* updateCourse() called with state.course = c at instant now: the setState of
\* enrollmentOpen and the two fetches
UpdateCourse(c, now) ==
  /\ Fetches + 2 <= MaxFetches
  /\ enrollmentOpen' = IsOpen(now, c)
  /\ profilesInFlight' = profilesInFlight + 1
  /\ sectionsInFlight' = [sectionsInFlight EXCEPT ![c.name] = @ + 1]

\* componentDidMount
Mount(now) ==
  /\ ~mounted
  /\ mounted' = TRUE
  /\ UpdateCourse(course, now)
  /\ UNCHANGED <<propCourse, course, sections, enrolled, viewSection,
                 enrollInFlight, alerts, uncaught, dropVars, mentorVars,
                 buttonVars, listingVars>>

\* componentDidUpdate calling updateCourse before the state reset is applied:
\* the window evaluated is that of the course held before the change.
CourseChangeStale(c, now) ==
  /\ mounted
  /\ propCourse' = c
  /\ course' = c
  /\ sections' = <<>>
  /\ enrolled' = FALSE
  /\ Fetches + 2 <= MaxFetches
  /\ enrollmentOpen' = IsOpen(now, course)
  /\ profilesInFlight' = profilesInFlight + 1
  /\ sectionsInFlight' = [sectionsInFlight EXCEPT ![c.name] = @ + 1]
  /\ UNCHANGED <<mounted, viewSection, enrollInFlight, alerts, uncaught,
                 dropVars, mentorVars, buttonVars, listingVars>>

\* The parent passes another course object c, of equal or of other field
\* values: componentDidUpdate sees props.course !== prevProps.course (a
\* comparison of references), resets the state and, in the setState
\* callback, calls updateCourse.  A re-render with the same object is no step.
CourseChange(c, now) ==
  /\ mounted
  /\ propCourse' = c
  /\ course' = c
  /\ sections' = <<>>
  /\ enrolled' = FALSE
  /\ UpdateCourse(c, now)
  /\ UNCHANGED <<mounted, viewSection, enrollInFlight, alerts, uncaught,
                 dropVars, mentorVars, buttonVars, listingVars>>

\* The continuation of the profiles fetch.  Its argument to includes is
\* state.course.id, and no `state` is in scope (the component's is
\* this.state): evaluating it throws a ReferenceError before setState is
\* called, so enrolled is not written and the promise rejects unhandled.
ProfilesResponse(profiles) ==
  /\ profilesInFlight > 0
  /\ profilesInFlight' = profilesInFlight - 1
  /\ uncaught' = uncaught \cup {"profiles"}
  /\ UNCHANGED <<mounted, propCourse, course, sections, enrolled, enrollmentOpen,
                 viewSection, sectionsInFlight, enrollInFlight, alerts,
                 dropVars, mentorVars, buttonVars, listingVars>>

\* The continuation of the sections fetch issued for course `name`, with the
\* body the server answered.
SectionsResponse(name, body) ==
  /\ sectionsInFlight[name] > 0
  /\ sectionsInFlight' = [sectionsInFlight EXCEPT ![name] = @ - 1]
  /\ sections' = Rendered(viewSection, GroupByDay(body))
  /\ UNCHANGED <<mounted, propCourse, course, enrolled, enrollmentOpen,
                 viewSection, profilesInFlight, enrollInFlight, alerts, uncaught,
                 dropVars, mentorVars, buttonVars, listingVars>>

\* onClick of an Enroll button that is rendered and not disabled: handleClick
\* up to the post() call
EnrollClick(section) ==
  /\ section \in Shown
  /\ ~Disabled(enrolled, enrollmentOpen, section)
  /\ EnrollTokens < MaxEnroll
  /\ enrollInFlight' = [enrollInFlight EXCEPT ![section.id] = @ + 1]
  /\ UNCHANGED <<mounted, propCourse, course, sections, enrolled, enrollmentOpen,
                 viewSection, profilesInFlight, sectionsInFlight, alerts, uncaught,
                 dropVars, mentorVars, buttonVars, listingVars>>

AlreadyEnrolledText ==
  "You are already enrolled in this course. You can only enroll in one section per course."
NotOpenText == "This course is not currently open for enrollment."
UnknownErrorText == "An unknown error has occurred."
SuccessText == "You've successfully enrolled in section"

HasCode(body, code) == "shortCode" \in DOMAIN body /\ body.shortCode = code

\* switch (body.shortCode) of handleClick
ErrorMessage(body) ==
  [text |-> IF HasCode(body, "already_enrolled") THEN AlreadyEnrolledText
            ELSE IF HasCode(body, "course_closed") THEN NotOpenText
            ELSE IF HasCode(body, "section_full") THEN NotOpenText
            ELSE UnknownErrorText]

\* the template literal of the success branch
SuccessMessage(id) ==
  [text |-> SuccessText, section |-> id,
   location |-> PoolSection(id).defaultSpacetime.location,
   startTime |-> FormatDisplay(ParseTime(PoolSection(id).defaultSpacetime.startTime))]

\* The alert_modal call with a callback that navigates in both branches.
EnrollAlertNavigating(id, ok, body) ==
  IF ~ok THEN [message |-> ErrorMessage(body), onAck |-> <<id>>]
         ELSE [message |-> SuccessMessage(id), onAck |-> <<id>>]

\* The alert_modal call with () => {} as the callback of both branches.
EnrollAlertSilent(id, ok, body) ==
  IF ~ok THEN [message |-> ErrorMessage(body), onAck |-> Null]
         ELSE [message |-> SuccessMessage(id), onAck |-> Null]

\* The alert_modal call handleClick makes: the message and the callback,
\* () => {} (written Null) or () => props.viewSection(props.section.id)
EnrollAlert(id, ok, body) ==
  IF ~ok THEN [message |-> ErrorMessage(body), onAck |-> Null]
         ELSE [message |-> SuccessMessage(id), onAck |-> <<id>>]

\* handleClick's promise chain rejects: response.json() of a body that is not
\* JSON, or body.shortCode read from null in the !ok branch.
EnrollThrows(ok, body) == body = Undecodable \/ (~ok /\ body = JsonNull)

\* The continuation with the success branch navigating before it alerts.
EnrollResponseEager(id, ok, body, now) ==
  /\ enrollInFlight[id] > 0
  /\ enrollInFlight' = [enrollInFlight EXCEPT ![id] = @ - 1]
  /\ IF EnrollThrows(ok, body)
       THEN /\ uncaught' = uncaught \cup {"enroll"}
            /\ UNCHANGED <<alerts, viewSection, enrollmentOpen,
                           profilesInFlight, sectionsInFlight>>
       ELSE /\ alerts' = Append(alerts, [message |-> EnrollAlert(id, ok, body).message,
                                         onAck |-> Null])
            /\ viewSection' = IF ok THEN <<id>> ELSE viewSection
            /\ UpdateCourse(course, now)
            /\ UNCHANGED uncaught
  /\ UNCHANGED <<mounted, propCourse, course, sections, enrolled,
                 dropVars, mentorVars, buttonVars, listingVars>>

\* The continuations of the enroll POST of section id (ok = response.ok, then
\* the decoded body): one alert_modal call, then props.update(), which is
\* updateCourse.  The chain has no rejection handler: when a continuation
\* throws, nothing after it runs and the rejection is unhandled.
EnrollResponse(id, ok, body, now) ==
  /\ enrollInFlight[id] > 0
  /\ enrollInFlight' = [enrollInFlight EXCEPT ![id] = @ - 1]
  /\ IF EnrollThrows(ok, body)
       THEN /\ uncaught' = uncaught \cup {"enroll"}
            /\ UNCHANGED <<alerts, enrollmentOpen, profilesInFlight,
                           sectionsInFlight>>
       ELSE /\ alerts' = Append(alerts, EnrollAlert(id, ok, body))
            /\ UpdateCourse(course, now)
            /\ UNCHANGED uncaught
  /\ UNCHANGED <<mounted, propCourse, course, sections, enrolled, viewSection,
                 dropVars, mentorVars, buttonVars, listingVars>>

\* alert_modal: the user acknowledges alert i, which closes it and runs its
\* callback.
AckAlert(i) ==
  /\ alerts' = SubSeq(alerts, 1, i - 1) \o SubSeq(alerts, i + 1, Len(alerts))
  /\ viewSection' = IF alerts[i].onAck = Null THEN viewSection ELSE alerts[i].onAck
  /\ UNCHANGED <<mounted, propCourse, course, sections, enrolled, enrollmentOpen,
                 profilesInFlight, sectionsInFlight, enrollInFlight, uncaught,
                 dropVars, mentorVars, buttonVars, listingVars>>

\* Course.render returns the Redirect to /sections/{viewSection}
RendersRedirect == viewSection # Null

CourseNext ==
  \/ \E now \in Times : Mount(now)
  \/ \E c \in Courses, now \in Times : CourseChange(c, now)
  \/ \E profiles \in ProfileResponses : ProfilesResponse(profiles)
  \/ \E name \in CourseNames : \E body \in SectionResponses(name) :
       SectionsResponse(name, body)
  \/ \E section \in Shown : EnrollClick(section)
  \/ \E id \in SectionIds, ok \in BOOLEAN, body \in EnrollResponseBodies,
          now \in Times :
       EnrollResponse(id, ok, body, now)
  \/ \E i \in DOMAIN alerts : AckAlert(i)

(***************************************************************************)
(* MentorSection                                                           *)
(***************************************************************************)
\* values of the id prop
MentorSectionIds == {1, 2}

\* weekStart values, oldest first
WeekStarts ==
  <<"Jan. 6, 2020", "Jan. 13, 2020", "Jan. 20, 2020", "Jan. 27, 2020">>

\* the students of each section, in the server's order
Roster(id) ==
  IF id = 1
    THEN <<[id |-> 101, name |-> "Alice", email |-> "alice@berkeley.edu"],
           [id |-> 102, name |-> "Bob", email |-> "bob@berkeley.edu"]>>
    ELSE <<[id |-> 201, name |-> "Carol", email |-> "carol@berkeley.edu"]>>

\* the attendance record of a student for week w
AttendanceOf(student, w) ==
  [id |-> student.id * 10 + w, weekStart |-> WeekStarts[w],
   presence |-> IF (student.id + w) % 2 = 0 THEN "PR" ELSE "UN"]

\* The bodies GET /sections/{id}/students/ can answer with: the roster, each
\* student with the attendances of the first n weeks.
StudentsData(id, n) ==
  [k \in DOMAIN Roster(id) |->
     [id |-> Roster(id)[k].id, name |-> Roster(id)[k].name,
      email |-> Roster(id)[k].email,
      attendances |-> [w \in 1 .. n |-> AttendanceOf(Roster(id)[k], w)]]]

StudentsResponses(id) == {StudentsData(id, n) : n \in 0 .. MaxWeeks}

\* data.map(({ name, email, id }) => ({ name, email, id }))
StudentsOf(data) ==
  [k \in DOMAIN data |->
     [name |-> data[k].name, email |-> data[k].email, id |-> data[k].id]]

\* Array.prototype.flatMap over already mapped arrays
RECURSIVE Flatten(_)
Flatten(seqs) ==
  IF seqs = <<>> THEN <<>> ELSE Head(seqs) \o Flatten(Tail(seqs))

\* Array.prototype.reverse
Reverse(s) == [i \in DOMAIN s |-> s[Len(s) + 1 - i]]

\* data.flatMap(({ name, id, attendances }) =>
\*   attendances.map(attendance => ({ ...attendance, student: { name, id } })))
FlatAttendances(data) ==
  Flatten([k \in DOMAIN data |->
    [a \in DOMAIN data[k].attendances |->
       [id |-> data[k].attendances[a].id,
        weekStart |-> data[k].attendances[a].weekStart,
        presence |-> data[k].attendances[a].presence,
        student |-> [name |-> data[k].name, id |-> data[k].id]]]])

\* groupBy(records, attendance => attendance.weekStart), written as
\* Object.entries lists the result
GroupByWeek(records) ==
  LET ks == DistinctKeys([i \in DOMAIN records |-> records[i].weekStart])
  IN  [j \in DOMAIN ks |->
         <<ks[j], SelectSeq(records, LAMBDA r : r.weekStart = ks[j])>>]

\* the reversal applied to each cohort after grouping
AttendancesPerGroupReversed(data) ==
  LET grouped == GroupByWeek(FlatAttendances(data))
  IN  [j \in DOMAIN grouped |-> <<grouped[j][1], Reverse(grouped[j][2])>>]

\* const attendances of the continuation
AttendancesOf(data) == GroupByWeek(Reverse(FlatAttendances(data)))

MentorFetches == SumOver(studentsInFlight, MentorSectionIds)

MentorInit ==
  /\ effectRan = FALSE
  /\ sectionId \in MentorSectionIds
  /\ students = <<>>
  /\ attendances = <<>>
  /\ loaded = FALSE
  /\ studentsInFlight = [id \in MentorSectionIds |-> 0]
  /\ selectedWeek = Null
  /\ page \in {"attendance", "other"}

\* the body of the effect up to the fetchJSON call, run for id
Effect(id) ==
  /\ MentorFetches < MaxMentorFetches
  /\ students' = <<>>
  /\ attendances' = <<>>
  /\ loaded' = FALSE
  /\ studentsInFlight' = [studentsInFlight EXCEPT ![id] = @ + 1]

\* useEffect is a passive effect: React commits the render of a new id first
\* and runs the effect in a later task, or at the start of the next update or
\* render if that comes first.  The state of MentorSection once a pending
\* effect has been run:
FlushedStudents == IF effectRan THEN students ELSE <<>>
FlushedAttendances == IF effectRan THEN attendances ELSE <<>>
FlushedLoaded == IF effectRan THEN loaded ELSE FALSE
FlushedInFlight ==
  IF effectRan THEN studentsInFlight
  ELSE [studentsInFlight EXCEPT ![sectionId] = @ + 1]

\* Object.keys(attendances)
WeekKeys == {attendances[j][1] : j \in DOMAIN attendances}

\* const selectedWeek of MentorSectionAttendance.render:
\* this.state.selectedWeek || (loaded && Object.keys(attendances)[0]);
\* false and undefined, both falsy, are written Null
EffectiveWeek ==
  IF selectedWeek # Null THEN selectedWeek
  ELSE IF loaded /\ attendances # <<>> THEN <<attendances[1][1]>>
  ELSE Null

\* The table body evaluates attendances[selectedWeek].map(...) whenever the
\* table is rendered (loaded) and selectedWeek is truthy; for a key the
\* mapping lacks the lookup is undefined and .map throws a TypeError.  No
\* component shown catches it: React unmounts the tree, and the state stays
\* as it was when render threw.
RenderThrows ==
  /\ page = "attendance"
  /\ loaded
  /\ EffectiveWeek # Null
  /\ EffectiveWeek[1] \notin WeekKeys

\* the pending effect of the committed render runs in a task of its own
RunEffect ==
  /\ ~effectRan
  /\ ~RenderThrows
  /\ effectRan' = TRUE
  /\ Effect(sectionId)
  /\ UNCHANGED <<sectionId, selectedWeek, page, dropVars, courseVars,
                 buttonVars, listingVars>>

\* The parent passes another id: an effect still pending runs first, then
\* MentorSection is rendered and committed with the new id, its state as it
\* was, and the effect of the dependency change [id] is left pending.
IdChange(id) ==
  /\ ~RenderThrows
  /\ id # sectionId
  /\ MentorFetches + (IF effectRan THEN 0 ELSE 1) < MaxMentorFetches
  /\ sectionId' = id
  /\ effectRan' = FALSE
  /\ students' = FlushedStudents
  /\ attendances' = FlushedAttendances
  /\ loaded' = FlushedLoaded
  /\ studentsInFlight' = FlushedInFlight
  /\ UNCHANGED <<selectedWeek, page, dropVars, courseVars, buttonVars,
                 listingVars>>

\* The continuation of the fetch issued for id, with the body the server
\* answered.  With an effect pending, the setState of the continuation and
\* the reset of the effect are applied in one render, in the order the
\* React release queues them: the reset first (the release runs pending
\* effects before it queues an update) or the response first (it runs them
\* when the render starts).  After render threw the component is unmounted:
\* the continuation runs and its setState is ignored.
StudentsResponse(id, data) ==
  /\ studentsInFlight[id] > 0
  /\ IF RenderThrows
       THEN /\ studentsInFlight' = [studentsInFlight EXCEPT ![id] = @ - 1]
            /\ UNCHANGED <<effectRan, students, attendances, loaded>>
       ELSE /\ studentsInFlight' = [FlushedInFlight EXCEPT ![id] = @ - 1]
            /\ effectRan' = TRUE
            /\ \/ /\ students' = StudentsOf(data)
                  /\ attendances' = AttendancesOf(data)
                  /\ loaded' = TRUE
               \/ /\ ~effectRan
                  /\ students' = <<>>
                  /\ attendances' = <<>>
                  /\ loaded' = FALSE
  /\ UNCHANGED <<sectionId, selectedWeek, page, dropVars, courseVars,
                 buttonVars, listingVars>>

\* a tab onClick that also runs the effect's fetch again
SelectWeekRefetching(weekStart) ==
  /\ page = "attendance"
  /\ loaded
  /\ weekStart \in WeekKeys
  /\ ~RenderThrows
  /\ effectRan
  /\ MentorFetches < MaxMentorFetches
  /\ selectedWeek' = <<weekStart>>
  /\ studentsInFlight' = [studentsInFlight EXCEPT ![sectionId] = @ + 1]
  /\ UNCHANGED <<sectionId, students, attendances, loaded, effectRan, page,
                 dropVars, courseVars, buttonVars, listingVars>>

\* onClick of the tab of weekStart: setState({ selectedWeek: weekStart }) of
\* MentorSectionAttendance.  The tab is on screen when loaded and render
\* completed; the handler runs with no effect of MentorSection pending.
SelectWeek(weekStart) ==
  /\ page = "attendance"
  /\ loaded
  /\ weekStart \in WeekKeys
  /\ ~RenderThrows
  /\ effectRan
  /\ selectedWeek' = <<weekStart>>
  /\ UNCHANGED <<sectionId, students, attendances, loaded, studentsInFlight,
                 effectRan, page, dropVars, courseVars, buttonVars,
                 listingVars>>

\* A click on the tab of weekStart while the effect of an id change is still
\* pending.  React runs the pending effect in the task of the click, before
\* the handler: the reset and the request for the current id.  The reset
\* takes the tabs off screen; whether the onClick of the clicked tab is still
\* called depends on the React release (called in 16.8, not called from 16.9
\* on, where the tab is unmounted before the event is dispatched).
ClickTabEffectPending(weekStart) ==
  /\ page = "attendance"
  /\ loaded
  /\ weekStart \in WeekKeys
  /\ ~RenderThrows
  /\ ~effectRan
  /\ effectRan' = TRUE
  /\ Effect(sectionId)
  /\ selectedWeek' \in {selectedWeek, <<weekStart>>}
  /\ UNCHANGED <<sectionId, page, dropVars, courseVars, buttonVars,
                 listingVars>>

\* The route leaves {url}/attendance: the Switch renders another Route and
\* MentorSectionAttendance is unmounted, its state with it; the state of
\* MentorSection stays.  The links are on screen while render completes; an
\* effect still pending runs before the route is rendered.
LeaveAttendance ==
  /\ page = "attendance"
  /\ ~RenderThrows
  /\ page' = "other"
  /\ selectedWeek' = Null
  /\ effectRan' = TRUE
  /\ students' = FlushedStudents
  /\ attendances' = FlushedAttendances
  /\ loaded' = FlushedLoaded
  /\ studentsInFlight' = FlushedInFlight
  /\ UNCHANGED <<sectionId, dropVars, courseVars, buttonVars, listingVars>>

\* The route enters {url}/attendance: the Route renders a new
\* MentorSectionAttendance, whose state is { selectedWeek: null }.
EnterAttendance ==
  /\ page = "other"
  /\ page' = "attendance"
  /\ selectedWeek' = Null
  /\ effectRan' = TRUE
  /\ students' = FlushedStudents
  /\ attendances' = FlushedAttendances
  /\ loaded' = FlushedLoaded
  /\ studentsInFlight' = FlushedInFlight
  /\ UNCHANGED <<sectionId, dropVars, courseVars, buttonVars, listingVars>>

MentorNext ==
  \/ RunEffect
  \/ \E weekStart \in WeekKeys : SelectWeek(weekStart)
  \/ \E weekStart \in WeekKeys : ClickTabEffectPending(weekStart)
  \/ LeaveAttendance
  \/ EnterAttendance
  \/ \E id \in MentorSectionIds : IdChange(id)
  \/ \E id \in MentorSectionIds : \E data \in StudentsResponses(id) :
       StudentsResponse(id, data)

(***************************************************************************)
(* SectionEnroll as a function of its props                                *)
(***************************************************************************)
\* sections with 0 <= enrolledStudents <= capacity <= MaxCapacity
ButtonSections ==
  {[id |-> 1, capacity |-> c, enrolledStudents |-> n,
    defaultSpacetime |-> PoolSection(1).defaultSpacetime] :
     c \in 0 .. MaxCapacity, n \in 0 .. MaxCapacity} 

ButtonProps ==
  {p \in [enrolled : BOOLEAN, enrollmentOpen : BOOLEAN, section : ButtonSections] :
     p.section.enrolledStudents <= p.section.capacity}

ButtonInit ==
  /\ buttonProps \in ButtonProps
  /\ button = Null

\* the body of SectionEnroll after handleClick: what props p render as
ButtonOf(p) ==
  [available |-> Available(p.section),
   pluralized_spot |-> IF Available(p.section) = 1 THEN "spot" ELSE "spots",
   disabled |-> Disabled(p.enrolled, p.enrollmentOpen, p.section)]

\* first render of the SectionEnroll
RenderButton ==
  /\ button = Null
  /\ button' = <<ButtonOf(buttonProps)>>
  /\ UNCHANGED <<buttonProps, dropVars, courseVars, mentorVars, listingVars>>

\* Day is rendered again and passes other props: SectionEnroll is rendered
\* for them in the same synchronous re-render
ButtonPropsChange(p) ==
  /\ button # Null
  /\ p # buttonProps
  /\ buttonProps' = p
  /\ button' = <<ButtonOf(p)>>
  /\ UNCHANGED <<dropVars, courseVars, mentorVars, listingVars>>

ButtonNext ==
  \/ RenderButton
  \/ \E p \in ButtonProps : ButtonPropsChange(p)

(***************************************************************************)
(* Course: the listing of a sections response                              *)
(***************************************************************************)
\* weekdays and start times of the listed sections
ListingDays == {"Monday", "Wednesday", "Sunday"}
ListingTimes == {<<9, 30, 0>>, <<10, 0, 0>>}

\* the section at place i of a response
ListedSection(i, day, time) ==
  [id |-> i, capacity |-> 1, enrolledStudents |-> 0,
   defaultSpacetime |-> [dayOfWeek |-> day, startTime |-> time,
                         location |-> "Soda 283"]]

\* The bodies of a sections response: up to MaxListed sections in any order
\* of weekdays and start times, equal ones included.
ListingBodies ==
  UNION {{[i \in 1 .. n |-> ListedSection(i, f[i][1], f[i][2])] :
            f \in [1 .. n -> ListingDays \X ListingTimes]} : n \in 0 .. MaxListed}

\* const dayComparator of Course.render, over Object.entries items
dayComparator(item1, item2) == dayOfWeek[item1[1]] - dayOfWeek[item2[1]]

\* Array.prototype.sort with dayComparator
RECURSIVE InsertByDay(_, _)
InsertByDay(x, sorted) ==
  IF sorted = <<>> THEN <<x>>
  ELSE IF dayComparator(x, sorted[Len(sorted)]) >= 0 THEN Append(sorted, x)
  ELSE Append(InsertByDay(x, SubSeq(sorted, 1, Len(sorted) - 1)),
              sorted[Len(sorted)])

RECURSIVE SortByDay(_)
SortByDay(entries) ==
  IF entries = <<>> THEN <<>>
  ELSE InsertByDay(entries[Len(entries)],
                   SortByDay(SubSeq(entries, 1, Len(entries) - 1)))

\* const days of Course.render: the entries of state.sections sorted by
\* dayComparator, each mapped to a Day, which sorts its sections by start time
DaysOf(grouped) ==
  LET sorted == SortByDay(grouped)
  IN  [j \in DOMAIN sorted |-> <<sorted[j][1], SortByStart(sorted[j][2])>>]

ListingInit ==
  /\ fetched \in ListingBodies
  /\ days = Null

\* The continuation of the sections fetch groups the body into
\* state.sections and Course.render lists it.
RenderListing ==
  /\ days = Null
  /\ days' = <<DaysOf(GroupByDay(fetched))>>
  /\ UNCHANGED <<fetched, dropVars, courseVars, mentorVars, buttonVars>>

ListingNext == RenderListing

(***************************************************************************)
(* Specifications                                                          *)
(***************************************************************************)
\* Course before it is constructed for a run: the fixed state the other
\* specifications leave it in
CourseIdle ==
  /\ CourseInit
  /\ propCourse = CHOOSE c \in Courses : c.id = 1

DropIdle ==
  /\ DropInit
  /\ profileId = CHOOSE p \in ProfileIds : \A q \in ProfileIds : p <= q

MentorIdle ==
  /\ MentorInit
  /\ sectionId = CHOOSE p \in MentorSectionIds : \A q \in MentorSectionIds : p <= q
  /\ page = "attendance"

ButtonIdle ==
  /\ ButtonInit
  /\ buttonProps = [enrolled |-> FALSE, enrollmentOpen |-> FALSE,
                    section |-> Snapshot(1, 0)]

ListingIdle ==
  /\ fetched = <<>>
  /\ days = Null

InitDrop == DropInit /\ CourseIdle /\ MentorIdle /\ ButtonIdle /\ ListingIdle
NextDrop == DropNext
SpecDrop == InitDrop /\ [][NextDrop]_vars

InitCourse == CourseInit /\ DropIdle /\ MentorIdle /\ ButtonIdle /\ ListingIdle
NextCourse == CourseNext
SpecCourse == InitCourse /\ [][NextCourse]_vars

InitMentor == MentorInit /\ DropIdle /\ CourseIdle /\ ButtonIdle /\ ListingIdle
NextMentor == MentorNext
SpecMentor == InitMentor /\ [][NextMentor]_vars

InitButton == ButtonInit /\ DropIdle /\ CourseIdle /\ MentorIdle /\ ListingIdle
NextButton == ButtonNext
SpecButton == InitButton /\ [][NextButton]_vars

InitListing == ListingInit /\ DropIdle /\ CourseIdle /\ MentorIdle /\ ButtonIdle
NextListing == ListingNext
SpecListing == InitListing /\ [][NextListing]_vars

(***************************************************************************)
(* Properties                                                              *)
(***************************************************************************)

\* C1: every step that enters DROPPED starts in CONFIRM; the stage never goes
\* from INITIAL to DROPPED in one step.
C1_DroppedOnlyFromConfirm ==
  [][(stage' = "DROPPED" /\ stage # "DROPPED") => stage = "CONFIRM"]_vars

\* C2: in a run that reaches DROPPED the remote drop call has been dispatched
\* exactly once.
C2_DropDispatchedOnce == stage = "DROPPED" => Len(dropCalls) = 1

\* C3 as stated: the confirm step is optimistic, so no state has a drop call
\* in flight while the stage is still CONFIRM or INITIAL.
C3_NoCallInFlightBeforeDropped == PendingDrops # {} => stage = "DROPPED"

\* C3, amended: the Confirm click dispatches the drop call from stage CONFIRM
\* and leaves the stage as it is; the stage enters DROPPED only in a step in
\* which a dispatched call fulfils.
C3_DroppedWhenCallFulfils ==
  [][ /\ Len(dropCalls') > Len(dropCalls) => (stage = "CONFIRM" /\ stage' = stage)
      /\ (stage' = "DROPPED" /\ stage # "DROPPED") =>
           \E i \in PendingDrops : dropCalls'[i].status = "fulfilled" ]_vars

\* C3 witness: Confirm was clicked, its call is in flight, the stage is CONFIRM.
C3_Witness == stage = "CONFIRM" /\ PendingDrops # {}

\* the sections held in Course.state.sections
HeldSections == UNION {Range(sections[j][2]) : j \in DOMAIN sections}

\* C4: in every state, the sections grouping holds only sections answered
\* to a request for the course held in state.course.
C4_SectionsOfHeldCourse ==
  \A sec \in HeldSections : PoolSection(sec.id).course = course.name

\* C5: whenever loaded, once the effect of the current id has run, students
\* and attendances are derived from a response to the request issued for the
\* current id.
C5_LoadedFromCurrentId ==
  (loaded /\ effectRan) =>
    \E data \in StudentsResponses(sectionId) :
      /\ students = StudentsOf(data)
      /\ attendances = AttendancesOf(data)

\* C6: no two requests in flight at once write the same state field
\* (sections), so once every response has arrived the sections shown are
\* those of the last request, the one for the held course, whatever the
\* order of arrival.
C6_DisjointWriters ==
  /\ SumOver(sectionsInFlight, CourseNames) <= 1
  /\ Fetches = 0 =>
       \A sec \in HeldSections : PoolSection(sec.id).course = course.name

\* C7: the Enroll button is enabled iff the student is not enrolled, the
\* window is open and enrolledStudents < capacity.
C7_EnrollButtonGate ==
  button # Null =>
    (~button[1].disabled <=>
       /\ ~buttonProps.enrolled
       /\ buttonProps.enrollmentOpen
       /\ buttonProps.section.enrolledStudents < buttonProps.section.capacity)

\* C7 witness: a full section rendered for a student who is not enrolled, in
\* an open window: the button is disabled by the capacity test alone.
C7_Witness ==
  /\ button # Null
  /\ ~buttonProps.enrolled
  /\ buttonProps.enrollmentOpen
  /\ buttonProps.section.capacity > 0
  /\ buttonProps.section.enrolledStudents = buttonProps.section.capacity
  /\ button[1].disabled

\* the message the rejection codes are documented to give
ExpectedText(body) ==
  IF "shortCode" \notin DOMAIN body THEN UnknownErrorText
  ELSE CASE body.shortCode = "already_enrolled" -> AlreadyEnrolledText
         [] body.shortCode \in {"course_closed", "section_full"} -> NotOpenText
         [] OTHER -> UnknownErrorText

\* C8: a rejected enroll (ok false), whatever its body, opens exactly one
\* alert, whose text is the one its shortCode is documented to give (the
\* unknown-error text when there is no code), and throws nothing.
C8_RejectionMessage ==
  [][\A id \in SectionIds, body \in EnrollResponseBodies, now \in Times :
       (enrollInFlight'[id] < enrollInFlight[id]
          /\ EnrollResponse(id, FALSE, body, now)) =>
         /\ Len(alerts') = Len(alerts) + 1
         /\ SubSeq(alerts', 1, Len(alerts)) = alerts
         /\ alerts'[Len(alerts')].message = [text |-> ExpectedText(body)]
         /\ uncaught' = uncaught]_vars

\* C9: neither the handling of a rejected enroll nor the acknowledgement of
\* its alert changes viewSection or enrolled.
C9_RejectionChangesNothing ==
  [][ /\ \A id \in SectionIds, body \in EnrollResponseBodies, now \in Times :
           (enrollInFlight'[id] < enrollInFlight[id]
              /\ EnrollResponse(id, FALSE, body, now)) =>
             (viewSection' = viewSection /\ enrolled' = enrolled)
      /\ \A i \in DOMAIN alerts :
           (alerts[i].message.text # SuccessText /\ AckAlert(i)) =>
             (viewSection' = viewSection /\ enrolled' = enrolled) ]_vars

\* C9 witness: the alert of a rejection is open and nothing navigated.
C9_Witness ==
  /\ viewSection = Null
  /\ ~enrolled
  /\ \E i \in DOMAIN alerts : alerts[i].message.text = NotOpenText

\* C10: viewSection is set only by a step that closes an open success alert
\* of that section, and a success alert of a section is opened only by a step
\* that receives a response to an enroll POST of that section.
C10_AlertBeforeNavigation ==
  [][ /\ viewSection' # viewSection =>
           \E i \in DOMAIN alerts :
             /\ alerts[i].message = SuccessMessage(viewSection'[1])
             /\ alerts' = SubSeq(alerts, 1, i - 1) \o SubSeq(alerts, i + 1, Len(alerts))
      /\ (/\ Len(alerts') > Len(alerts)
          /\ alerts'[Len(alerts')].message.text = SuccessText) =>
           LET id == alerts'[Len(alerts')].message.section
           IN  enrollInFlight'[id] = enrollInFlight[id] - 1 ]_vars

\* C10 witness: the navigation intent has fired.
C10_Witness == viewSection # Null /\ alerts = <<>>

C12_CancelHasNoSideEffect ==
  [][ /\ ( \/ (stage = "INITIAL" /\ stage' = "CONFIRM")
           \/ (stage = "CONFIRM" /\ stage' = "INITIAL") ) =>
           (dropCalls' = dropCalls /\ profileId' = profileId)
      /\ CloseModal =>
           (stage' = "INITIAL" /\ dropCalls' = dropCalls /\ profileId' = profileId)
      /\ ClickDrop => dropCalls' = dropCalls ]_vars

\* C12 witness: the modal was cancelled (stage INITIAL again) after Confirm
\* clicks; a cancel before any Confirm click ends in the initial state itself.
C12_Witness ==
  /\ stage = "INITIAL"
  /\ dropCalls # <<>>
  /\ \A i \in DOMAIN dropCalls : dropCalls[i].status # "fulfilled"

\* C13 as stated: once the stage is DROPPED it stays DROPPED, no further drop
\* call is dispatched, and the component renders the redirect.
C13_DroppedIsTerminal ==
  [][stage = "DROPPED" =>
       /\ stage' = "DROPPED"
       /\ Len(dropCalls') = Len(dropCalls)
       /\ DropRendersRedirect']_vars

\* C13, amended: DROPPED is terminal for the DropSection instance that
\* reached it: in every step that does not mount a new instance the stage
\* stays DROPPED, no drop call is dispatched and render returns the
\* redirect; a step that mounts a new instance starts it in INITIAL.
C13_DroppedTerminalForInstance ==
  [][ /\ (stage = "DROPPED" /\ ~(~dropMounted /\ dropMounted')) =>
           /\ stage' = "DROPPED"
           /\ Len(dropCalls') = Len(dropCalls)
           /\ DropRendersRedirect'
      /\ (~dropMounted /\ dropMounted') =>
           (stage' = "INITIAL" /\ dropCalls' = dropCalls) ]_vars

\* C13 witness: a DropSection reached DROPPED and was unmounted by its
\* redirect, with the response of another of its calls still to come.
C13_Witness ==
  /\ stage = "DROPPED"
  /\ ~dropMounted
  /\ PendingDrops # {}

\* C14 as stated: a confirmed drop ends in DROPPED whether its call succeeds
\* or fails; once every dispatched call has completed, the stage is DROPPED.
C14_ConfirmedDropEndsDropped ==
  (dropCalls # <<>> /\ PendingDrops = {}) => stage = "DROPPED"

\* C14, amended: a drop call whose promise rejects leaves the stage as it is
\* and changes nothing else; the stage is DROPPED only if some dispatched
\* call fulfilled.
C14_RejectionLeavesStage ==
  [][ /\ \A i \in PendingDrops :
           dropCalls'[i].status = "rejected" =>
             (stage' = stage /\ profileId' = profileId)
      /\ stage' = "DROPPED" =>
           \E i \in DOMAIN dropCalls' : dropCalls'[i].status = "fulfilled" ]_vars

\* C14 witness: the only call rejected and the stage is still CONFIRM.
C14_Witness ==
  /\ stage = "CONFIRM"
  /\ dropCalls # <<>>
  /\ \A i \in DOMAIN dropCalls : dropCalls[i].status = "rejected"

\* the enrollment-open flag, case by case
ExpectedOpen(now, start, end) ==
  CASE now = start -> FALSE
    [] now = end -> FALSE
    [] now < start \/ now > end -> FALSE
    [] OTHER -> TRUE

\* C15: every call of updateCourse sets enrollmentOpen to TRUE exactly when
\* now lies strictly between enrollmentStart and enrollmentEnd: FALSE at
\* either end and outside.
C15_StrictWindow ==
  [][\A c \in Courses, now \in Times :
       UpdateCourse(c, now) =>
         enrollmentOpen' = ExpectedOpen(now, c.enrollmentStart, c.enrollmentEnd)]_vars

\* C15 witness: updateCourse has run at an instant inside the window.
C15_Witness == mounted /\ enrollmentOpen /\ profilesInFlight > 0 /\ sections = <<>>

\* C16: a change of the course prop resets sections and enrolled and leaves
\* enrollmentOpen evaluated, at the instant of the change, on the new
\* course's window.
C16_WindowReevaluatedOnCourseChange ==
  [][\A c \in Courses, now \in Times :
       CourseChange(c, now) =>
         /\ course' = c
         /\ sections' = <<>>
         /\ enrolled' = FALSE
         /\ enrollmentOpen' =
              ExpectedOpen(now, c.enrollmentStart, c.enrollmentEnd)]_vars

\* C16 witness: the course was changed to CS70 while the sections of CS61A
\* were still being fetched, and enrollment shows open.
C16_Witness ==
  /\ course.name = "CS70"
  /\ sectionsInFlight["CS61A"] > 0
  /\ enrollmentOpen
  /\ sections = <<>>

\* the place of record r in the flat sequence R (records differ by id)
PositionIn(R, r) == CHOOSE i \in DOMAIN R : R[i] = r

\* the first place of R holding a record of week w
FirstIndexOfKey(R, w) ==
  CHOOSE i \in DOMAIN R :
    R[i].weekStart = w /\ \A h \in 1 .. (i - 1) : R[h].weekStart # w

\* the places <<cohort, index>> of a grouped mapping
PlacesOf(G) == UNION {{<<j, k>> : k \in DOMAIN G[j][2]} : j \in DOMAIN G}

\* G is the grouping of the flat sequence R by weekStart
GroupedByWeekStart(R, G) ==
  /\ (R = <<>>) => (G = <<>>)
  /\ \A j \in DOMAIN G :
       /\ G[j][2] # <<>>
       /\ \A k \in DOMAIN G[j][2] :
            G[j][2][k] \in Range(R) /\ G[j][2][k].weekStart = G[j][1]
  /\ \A j1, j2 \in DOMAIN G : (j1 # j2) => (G[j1][1] # G[j2][1])
  /\ \A i \in DOMAIN R :
       Cardinality({p \in PlacesOf(G) : G[p[1]][2][p[2]] = R[i]}) = 1
  /\ \A j \in DOMAIN G : \A k1, k2 \in DOMAIN G[j][2] :
       (k1 < k2) => (PositionIn(R, G[j][2][k1]) < PositionIn(R, G[j][2][k2]))
  /\ \A j1, j2 \in DOMAIN G :
       (j1 < j2) => (FirstIndexOfKey(R, G[j1][1]) < FirstIndexOfKey(R, G[j2][1]))

\* C17: the attendances a response leaves in the state are the grouping by
\* weekStart of the reversed flat record sequence: every record in exactly
\* one cohort, each cohort in the order of the reversed sequence, cohort keys
\* in the order of their first appearance in it, and no cohort for an empty
\* input.
C17_GroupedAfterWholeReversal ==
  [][\A id \in MentorSectionIds : \A data \in StudentsResponses(id) :
       (~RenderThrows /\ StudentsResponse(id, data) /\ loaded') =>
         GroupedByWeekStart(Reverse(FlatAttendances(data)), attendances')]_vars

\* C17 witness: two students with two weeks each were loaded, so both cohorts
\* hold records of both students, the later student's first.
C17_Witness ==
  /\ loaded
  /\ Len(attendances) = 2
  /\ Len(attendances[1][2]) = 2
  /\ attendances[1][2][1].student.id > attendances[1][2][2].student.id

\* C19: when a response is loaded, first or again, the effective selected
\* week is the first key of the freshly grouped mapping (none for an empty
\* mapping).
C19_ReloadSelectsFirstKey ==
  [][\A id \in MentorSectionIds : \A data \in StudentsResponses(id) :
       (~RenderThrows /\ page = "attendance" /\ StudentsResponse(id, data)
          /\ loaded') =>
         EffectiveWeek' =
           (IF attendances' = <<>> THEN Null ELSE <<attendances'[1][1]>>)]_vars

\* C20: whenever the table is rendered, the effective selected week is null
\* or a key of the current attendances mapping, so no missing cohort is
\* indexed.
C20_SelectedWeekIsAKey ==
  (page = "attendance" /\ loaded) => (EffectiveWeek = Null \/ EffectiveWeek[1] \in WeekKeys)

\* start time t1 is earlier than t2, both written <<HH, mm, ss>>
Earlier(t1, t2) ==
  \/ t1[1] < t2[1]
  \/ t1[1] = t2[1] /\ t1[2] < t2[2]
  \/ t1[1] = t2[1] /\ t1[2] = t2[2] /\ t1[3] < t2[3]

\* the places <<day, index>> of a rendered listing
ListingPlaces(D) == UNION {{<<j, k>> : k \in DOMAIN D[j][2]} : j \in DOMAIN D}

\* the rank of a weekday, Monday first
WeekdayRank(d) ==
  CHOOSE r \in 1 .. 7 :
    <<"Monday", "Tuesday", "Wednesday", "Thursday", "Friday", "Saturday",
      "Sunday">>[r] = d

\* C18: the rendered days are in the order Monday to Sunday whatever the
\* order of the response; the sections of a day are in ascending start time,
\* those of equal start time in their order in the response; every fetched
\* section is rendered exactly once, under its own weekday.
C18_CanonicalListing ==
  (days # Null) =>
    LET D == days[1]
    IN  /\ \A j1, j2 \in DOMAIN D :
             (j1 < j2) => (WeekdayRank(D[j1][1]) < WeekdayRank(D[j2][1]))
        /\ \A j \in DOMAIN D : \A k \in DOMAIN D[j][2] :
             /\ D[j][2][k] \in Range(fetched)
             /\ D[j][2][k].defaultSpacetime.dayOfWeek = D[j][1]
        /\ \A j \in DOMAIN D : \A k1, k2 \in DOMAIN D[j][2] :
             (k1 < k2) =>
               LET s1 == D[j][2][k1]
                   s2 == D[j][2][k2]
               IN  \/ Earlier(s1.defaultSpacetime.startTime,
                              s2.defaultSpacetime.startTime)
                   \/ /\ s1.defaultSpacetime.startTime = s2.defaultSpacetime.startTime
                      /\ s1.id < s2.id
        /\ \A i \in DOMAIN fetched :
             Cardinality({p \in ListingPlaces(D) : D[p[1]][2][p[2]] = fetched[i]}) = 1

\* C18 witness: a response listing a Sunday section before two Monday
\* sections of equal start time, rendered with Monday first.
C18_Witness ==
  /\ days # Null
  /\ Len(fetched) = 3
  /\ fetched[1].defaultSpacetime.dayOfWeek = "Sunday"
  /\ fetched[2].defaultSpacetime.dayOfWeek = "Monday"
  /\ fetched[3].defaultSpacetime.dayOfWeek = "Monday"
  /\ fetched[2].defaultSpacetime.startTime = fetched[3].defaultSpacetime.startTime
  /\ days[1][1][1] = "Monday"
  /\ Len(days[1][1][2]) = 2

\* C21: when the profiles response is handled, enrolled is TRUE exactly when
\* some returned profile's course is the id of the course held.
C21_EnrolledFromProfiles ==
  [][\A profiles \in ProfileResponses :
       ProfilesResponse(profiles) =>
         enrolled' = (\E k \in DOMAIN profiles : profiles[k].course = course'.id)]_vars

\* C22: the onClick of a week tab sets selectedWeek to the clicked key, leaves
\* students, attendances and loaded as they are and dispatches no request;
\* and a click that arrives while the effect of an id change is pending adds
\* to what that effect does (the reset and the one request for the current
\* id) nothing but, at most, the selection of the clicked key.
C22_SelectWeekIsLocal ==
  [][\A weekStart \in Range(WeekStarts) :
       /\ SelectWeek(weekStart) =>
            /\ selectedWeek' = <<weekStart>>
            /\ students' = students
            /\ attendances' = attendances
            /\ loaded' = loaded
            /\ studentsInFlight' = studentsInFlight
       /\ ClickTabEffectPending(weekStart) =>
            /\ selectedWeek' \in {selectedWeek, <<weekStart>>}
            /\ students' = FlushedStudents
            /\ attendances' = FlushedAttendances
            /\ loaded' = FlushedLoaded
            /\ studentsInFlight' = FlushedInFlight
            /\ sectionId' = sectionId]_vars

\* C22 witness: a week other than the default first key was selected, with
\* the loaded data still in place and no request outstanding.
C22_Witness ==
  /\ loaded
  /\ selectedWeek # Null
  /\ Len(attendances) = 2
  /\ selectedWeek[1] = attendances[2][1]
  /\ MentorFetches = 0

====
